---------------------------- MODULE Spec2Model ----------------------------
(***************************************************************************)
(* Model of the chatkit-starter repository:                                *)
(*   - the create-session route, in its two versions                       *)
(*       src/app/api/create-session/route.ts   (impl = "route")            *)
(*       src/unnamed/part_000                  (impl = "part000")          *)
(*     together with the browser that calls it and the upstream it proxies *)
(*   - the ChatKitPanel component: its client tools, its session fetch      *)
(*     (getClientSecret), its script handlers and what it renders          *)
(*       src/unnamed/part_003                                              *)
(*                                                                         *)
(* Text that the code splits, trims, joins or URI-encodes is a sequence of *)
(* atoms: an atom is a separator character (";", "=", " ", tab, newline)   *)
(* or a run of characters holding no separator ("chatkit_session_id",      *)
(* "u1").  JSON scalars are records [t |-> <typeof>, s |-> <text>].        *)
(***************************************************************************)
EXTENDS Integers, Sequences, FiniteSets, TLC

VARIABLES
    env,        \* process.env and '@/lib/config', fixed for a deployment
    jar,        \* the browser's stored chatkit_session_id cookie value
    pending,    \* POSTs sent by a client and not yet picked up by the route
    awaiting,   \* POSTs suspended in `await fetch(...)` to the upstream
    replies,    \* responses on their way back to the browser
    last,       \* the exchange the latest step completed (request, upstream, response)
    hist,       \* counters over the run: posts, ids generated, browser users
    panel,      \* ChatKitPanel state: refs and useState values
    toolLog,    \* the latest client-tool invocation (n = 1 until the epoch ends),
                \* its effects, and the fact ids passed to onWidgetAction
    sess,       \* the getClientSecret calls suspended in `await fetch(...)` and
                \* the latest script, session or mount event with its effects
    ext         \* an error response and the message the route (in both
                \* versions) and the page extract from it

vars == <<env, jar, pending, awaiting, replies, last, hist, panel, toolLog, sess,
         ext>>

routeVars == <<env, jar, pending, awaiting, replies, last, hist>>
panelVars == <<panel, toolLog, sess>>

-----------------------------------------------------------------------------
(* Bounds of the model *)

\* POSTs issued over one run
MaxPosts == 2
\* chat resets over one run (widgetInstanceKey counts them)
MaxResets == 2
\* getClientSecret calls over one run
MaxCalls == 2

-----------------------------------------------------------------------------
(* JavaScript values *)

Undefined == [t |-> "undefined", s |-> ""]
Null      == [t |-> "null", s |-> ""]
Str(x)    == [t |-> "string", s |-> x]
Num(x)    == [t |-> "number", s |-> x]
Obj(x)    == [t |-> "object", s |-> x]

\* a ?? b
Nullish(v) == v.t \in {"undefined", "null"}
Coalesce(a, b) == IF Nullish(a) THEN b ELSE a

\* !v for the values above (objects are truthy, "" and 0 are falsy)
Truthy(v) ==
    CASE v.t \in {"undefined", "null"} -> FALSE
      [] v.t = "string" -> v.s # ""
      [] v.t = "number" -> v.s \notin {"0", "NaN"}
      [] OTHER -> TRUE

-----------------------------------------------------------------------------
(* Text as sequences of atoms *)

Whitespace == {" ", "\t", "\n"}

\* the absent string (null) next to the strings, which are sequences
NoText == <<"<null>">>

RECURSIVE SplitFrom(_, _, _, _)
SplitFrom(s, sep, i, cur) ==
    IF i > Len(s) THEN <<cur>>
    ELSE IF s[i] = sep THEN <<cur>> \o SplitFrom(s, sep, i + 1, <<>>)
    ELSE SplitFrom(s, sep, i + 1, Append(cur, s[i]))

\* String.prototype.split(sep)
Split(s, sep) == SplitFrom(s, sep, 1, <<>>)

RECURSIVE Join(_, _)
\* Array.prototype.join(sep)
Join(parts, sep) ==
    IF Len(parts) = 0 THEN <<>>
    ELSE IF Len(parts) = 1 THEN parts[1]
    ELSE parts[1] \o <<sep>> \o Join(Tail(parts), sep)

RECURSIVE TrimStart(_)
TrimStart(s) ==
    IF Len(s) > 0 /\ s[1] \in Whitespace THEN TrimStart(Tail(s)) ELSE s

RECURSIVE TrimEnd(_)
TrimEnd(s) ==
    IF Len(s) > 0 /\ s[Len(s)] \in Whitespace
    THEN TrimEnd(SubSeq(s, 1, Len(s) - 1)) ELSE s

\* String.prototype.trim()
Trim(s) == TrimEnd(TrimStart(s))

\* encodeURIComponent on one atom: separators are escaped, a run of
\* unreserved characters is kept
EncodeAtom(a) ==
    CASE a = ";"  -> "%3B"
      [] a = "="  -> "%3D"
      [] a = " "  -> "%20"
      [] a = "\t" -> "%09"
      [] a = "\n" -> "%0A"
      [] OTHER    -> a

encodeURIComponent(s) == [i \in 1..Len(s) |-> EncodeAtom(s[i])]


-----------------------------------------------------------------------------
(* The create-session route: constants and helpers *)

SESSION_COOKIE_NAME == <<"chatkit_session_id">>
SESSION_COOKIE_MAX_AGE == 60 * 60 * 24 * 30

\* `if (x)` for a string | null held as text
TruthyText(x) == x # NoText /\ Len(x) > 0

RECURSIVE CookieScan_noTrim(_, _, _)
\* CookieScan comparing rawName without trimming it
CookieScan_noTrim(parts, name, i) ==
    IF i > Len(parts) THEN NoText
    ELSE LET kv      == Split(parts[i], "=")
             rawName == kv[1]
             rest    == Tail(kv)
         IN  IF Len(rawName) = 0 \/ Len(rest) = 0
             THEN CookieScan_noTrim(parts, name, i + 1)
             ELSE IF rawName = name
                  THEN Trim(Join(rest, "="))
                  ELSE CookieScan_noTrim(parts, name, i + 1)

RECURSIVE CookieScan(_, _, _)
\* the loop of getCookieValue over header.split(";")
CookieScan(parts, name, i) ==
    IF i > Len(parts) THEN NoText
    ELSE LET kv      == Split(parts[i], "=")
             rawName == kv[1]
             rest    == Tail(kv)
         IN  IF Len(rawName) = 0 \/ Len(rest) = 0
             THEN CookieScan(parts, name, i + 1)
             ELSE IF Trim(rawName) = name
                  THEN Trim(Join(rest, "="))
                  ELSE CookieScan(parts, name, i + 1)

getCookieValue(header, name) ==
    IF ~TruthyText(header) THEN NoText
    ELSE CookieScan(Split(header, ";"), name, 1)

serializeSessionCookie(value, production) ==
    SESSION_COOKIE_NAME \o <<"=">> \o encodeURIComponent(value)
      \o <<";", " ", "Path", "=", "/">>
      \o <<";", " ", "Max-Age", "=", ToString(SESSION_COOKIE_MAX_AGE)>>
      \o <<";", " ", "HttpOnly">>
      \o <<";", " ", "SameSite", "=", "Lax">>
      \o (IF production THEN <<";", " ", "Secure">> ELSE <<>>)

\* resolveUserId: `uuid` is what crypto.randomUUID() returns if it is called
\* (runtime = "edge" provides it, so the Math.random branch is not taken)
resolveUserId(header, uuid, production) ==
    LET existing == getCookieValue(header, SESSION_COOKIE_NAME)
    IN  IF TruthyText(existing)
        THEN [userId |-> existing, sessionCookie |-> NoText, generated |-> FALSE]
        ELSE [userId |-> uuid,
              sessionCookie |-> serializeSessionCookie(uuid, production),
              generated |-> TRUE]

\* safeParseJson: TRUE when the request text parses to a value to read fields of
safeParseJson(body) == body.text = "json"

\* body?.workflow?.id
BodyWorkflowDotId(body) ==
    IF ~safeParseJson(body) \/ body.workflow # "object" THEN Undefined
    ELSE body.workflow_id

\* body?.workflowId
BodyWorkflowId(body) ==
    IF ~safeParseJson(body) THEN Undefined ELSE body.workflowId

\* body?.workflow?.id ?? body?.workflowId ?? WORKFLOW_ID
resolvedWorkflowId(body, configId) ==
    Coalesce(Coalesce(BodyWorkflowDotId(body), BodyWorkflowId(body)), configId)

\* body?.chatkit_configuration?.file_upload?.enabled ?? false
fileUploadEnabled(body) ==
    IF ~safeParseJson(body) THEN [t |-> "boolean", s |-> "false"]
    ELSE Coalesce(body.fileUpload, [t |-> "boolean", s |-> "false"])

-----------------------------------------------------------------------------
(* Upstream payloads: the parsed JSON body of the upstream's response.      *)
(* isRecord is FALSE for the JSON literal null.                             *)

NoV1 == [t |-> "undefined", s |-> "", message |-> Undefined]
NoV2 == [t |-> "undefined", s |-> "", error |-> NoV1]

\* {} : what `.json().catch(() => ({}))` leaves after a parse failure
EmptyObject ==
    [isRecord |-> TRUE, client_secret |-> Undefined, expires_after |-> Undefined,
     error |-> NoV1, details |-> NoV2, message |-> Undefined, id |-> Undefined]

JsonNull == [EmptyObject EXCEPT !.isRecord = FALSE]

\* await upstreamResponse.json().catch(() => ({}))
upstreamJson(outcome) ==
    IF outcome.parse = "fail" THEN EmptyObject ELSE outcome.payload

IsString(v) == v.t = "string"

\* route.ts: extractUpstreamError (string | null, as Str(x) | Null)
extractUpstreamError_route(payload) ==
    IF ~payload.isRecord THEN Null
    ELSE IF IsString(payload.error) THEN Str(payload.error.s)
    ELSE IF payload.error.t = "object" /\ IsString(payload.error.message)
         THEN Str(payload.error.message.s)
    ELSE IF IsString(payload.details) THEN Str(payload.details.s)
    ELSE IF payload.details.t = "object" /\ IsString(payload.details.error)
         THEN Str(payload.details.error.s)
    ELSE IF payload.details.t = "object" /\ payload.details.error.t = "object"
            /\ IsString(payload.details.error.message)
         THEN Str(payload.details.error.message.s)
    ELSE IF IsString(payload.message) THEN Str(payload.message.s)
    ELSE Null

\* part_000: getNestedMessage
getNestedMessage(obj) ==
    IF ~obj.isRecord THEN Null
    ELSE IF obj.error.t = "object" /\ IsString(obj.error.message)
         THEN Str(obj.error.message.s)
    ELSE IF IsString(obj.message) THEN Str(obj.message.s)
    ELSE IF obj.details.t = "object" /\ IsString(obj.details.error)
         THEN Str(obj.details.error.s)
    ELSE IF obj.details.t = "object" /\ obj.details.error.t = "object"
            /\ IsString(obj.details.error.message)
         THEN Str(obj.details.error.message.s)
    ELSE Null

\* part_000: extractUpstreamError
extractUpstreamError_part000(payload) ==
    LET msg == getNestedMessage(payload)
    IN  IF Truthy(msg) THEN msg
        ELSE IF payload.isRecord /\ IsString(payload.error)
             THEN Str(payload.error.s)
        ELSE Null

extractUpstreamError(impl, payload) ==
    IF impl = "route" THEN extractUpstreamError_route(payload)
    ELSE extractUpstreamError_part000(payload)

\* part_000: toChatKitSessionResponse, the two fields POST reads
toChatKitSessionResponse(value) ==
    [client_secret |->
        IF value.isRecord /\ IsString(value.client_secret)
        THEN value.client_secret ELSE Undefined,
     expires_after |->
        IF value.isRecord /\ value.expires_after.t \in {"number", "string"}
        THEN value.expires_after
        ELSE IF value.isRecord /\ value.expires_after.t = "null" THEN Null
        ELSE Undefined]

\* (upstreamJson as any)?.client_secret ?? null   |   parsed.client_secret ?? null
clientSecret(impl, value) ==
    IF impl = "route"
    THEN Coalesce(IF value.isRecord THEN value.client_secret ELSE Undefined, Null)
    ELSE Coalesce(toChatKitSessionResponse(value).client_secret, Null)

expiresAfter(impl, value) ==
    IF impl = "route"
    THEN Coalesce(IF value.isRecord THEN value.expires_after ELSE Undefined, Null)
    ELSE Coalesce(toChatKitSessionResponse(value).expires_after, Null)

-----------------------------------------------------------------------------
(* Responses *)

NoBody ==
    [fields |-> {}, error |-> "", client_secret |-> Undefined,
     expires_after |-> Undefined, details |-> EmptyObject]

MissingKeyBody ==
    [NoBody EXCEPT !.fields = {"error", "hint"},
                   !.error = "Missing OPENAI_API_KEY environment variable"]

MissingWorkflowBody ==
    [NoBody EXCEPT !.fields = {"error", "hint"}, !.error = "Missing workflow id"]

GenericErrorBody ==
    [NoBody EXCEPT !.fields = {"error"},
                   !.error = "Unexpected error while creating session"]

InfoBody == [NoBody EXCEPT !.fields = {"info", "expects", "ok_example"}]

\* the error body of the `!upstreamResponse.ok` branch; route.ts adds `details`
UpstreamErrorBody(impl, outcome) ==
    LET payload == upstreamJson(outcome)
        upstreamError == extractUpstreamError(impl, payload)
        text == IF Nullish(upstreamError)
                THEN "Failed to create session: " \o ToString(outcome.status)
                       \o " " \o outcome.statusText
                ELSE upstreamError.s
    IN  IF impl = "route"
        THEN [NoBody EXCEPT !.fields = {"error", "details"}, !.error = text,
                            !.details = payload]
        ELSE [NoBody EXCEPT !.fields = {"error"}, !.error = text]

\* SessionBody forwarding the upstream's session id as well
SessionBody_withId(impl, outcome) ==
    [NoBody EXCEPT !.fields = {"client_secret", "expires_after", "id"},
                   !.client_secret = clientSecret(impl, upstreamJson(outcome)),
                   !.expires_after = expiresAfter(impl, upstreamJson(outcome))]

\* the body of the happy path: { client_secret, expires_after }
SessionBody(impl, outcome) ==
    [NoBody EXCEPT !.fields = {"client_secret", "expires_after"},
                   !.client_secret = clientSecret(impl, upstreamJson(outcome)),
                   !.expires_after = expiresAfter(impl, upstreamJson(outcome))]

\* statuses for which `new Response(body, { status })` throws with a body
NullBodyStatus == {101, 103, 204, 205, 304}

Threw == [threw |-> TRUE, status |-> 0, setCookie |-> NoText, body |-> NoBody]

\* json appending Set-Cookie to successful responses only
json_cookieOn200Only(payload, status, sessionCookie) ==
    IF status \notin 200..599 \/ status \in NullBodyStatus THEN Threw
    ELSE [threw |-> FALSE, status |-> status,
          setCookie |-> IF TruthyText(sessionCookie) /\ status = 200
                        THEN sessionCookie ELSE NoText,
          body |-> payload]

\* json(payload, status, headers, sessionCookie); the Response constructor
\* rejects a status outside 200..599 and a body on a null-body status
json(payload, status, sessionCookie) ==
    IF status \notin 200..599 \/ status \in NullBodyStatus THEN Threw
    ELSE [threw |-> FALSE, status |-> status,
          setCookie |-> IF TruthyText(sessionCookie) THEN sessionCookie ELSE NoText,
          body |-> payload]

\* try { return <attempt> } catch { return json(generic, 500, ..., sessionCookie) }
OrCatch(attempt, sessionCookie) ==
    IF attempt.threw THEN json(GenericErrorBody, 500, sessionCookie) ELSE attempt

\* Response.ok taken as "the status is 200"
Ok_only200(status) == status = 200

\* Response.ok
Ok(status) == status \in 200..299

NoOutcome ==
    [kind |-> "none", status |-> 0, statusText |-> "", parse |-> "ok",
     payload |-> EmptyObject]

\* PostStart calling the upstream before it looks at the workflow id
PostStart_fetchBeforeCheck(e, req, uuid) ==
    IF ~Truthy(e.OPENAI_API_KEY)
    THEN [done |-> TRUE, fetches |-> 0, generated |-> FALSE, userId |-> NoText,
          sessionCookie |-> NoText, workflow |-> Undefined,
          fileUpload |-> Undefined,
          resp |-> OrCatch(json(MissingKeyBody, 500, NoText), NoText)]
    ELSE LET r  == resolveUserId(req.cookie, uuid, e.production)
             wf == resolvedWorkflowId(req.body, e.WORKFLOW_ID)
         IN  [done |-> FALSE, fetches |-> 1, generated |-> r.generated,
              userId |-> r.userId, sessionCookie |-> r.sessionCookie,
              workflow |-> wf, fileUpload |-> fileUploadEnabled(req.body),
              resp |-> Threw]

\* POST up to `await fetch(...)`: either a response (early return) or the
\* request sent upstream; fetches counts the calls of fetch
PostStart(e, req, uuid) ==
    IF ~Truthy(e.OPENAI_API_KEY)
    THEN [done |-> TRUE, fetches |-> 0, generated |-> FALSE, userId |-> NoText,
          sessionCookie |-> NoText, workflow |-> Undefined,
          fileUpload |-> Undefined,
          resp |-> OrCatch(json(MissingKeyBody, 500, NoText), NoText)]
    ELSE LET r  == resolveUserId(req.cookie, uuid, e.production)
             wf == resolvedWorkflowId(req.body, e.WORKFLOW_ID)
         IN  IF ~Truthy(wf)
             THEN [done |-> TRUE, fetches |-> 0, generated |-> r.generated,
                   userId |-> r.userId,
                   sessionCookie |-> r.sessionCookie, workflow |-> wf,
                   fileUpload |-> Undefined,
                   resp |-> OrCatch(json(MissingWorkflowBody, 400, r.sessionCookie),
                                    r.sessionCookie)]
             ELSE [done |-> FALSE, fetches |-> 1, generated |-> r.generated,
                   userId |-> r.userId,
                   sessionCookie |-> r.sessionCookie, workflow |-> wf,
                   fileUpload |-> fileUploadEnabled(req.body),
                   resp |-> Threw]

\* PostFinish with `await upstreamResponse.json()` left uncaught: a body that
\* does not parse lands in the catch block
PostFinish_parseThrows(e, sessionCookie, outcome) ==
    IF outcome.kind = "throw" \/ outcome.parse = "fail"
    THEN json(GenericErrorBody, 500, sessionCookie)
    ELSE IF ~Ok(outcome.status)
    THEN OrCatch(json(UpstreamErrorBody(e.impl, outcome), outcome.status,
                      sessionCookie), sessionCookie)
    ELSE OrCatch(json(SessionBody(e.impl, outcome), 200, sessionCookie),
                 sessionCookie)

\* POST from the settling of `await fetch(...)` to its return
PostFinish(e, sessionCookie, outcome) ==
    IF outcome.kind = "throw"
    THEN json(GenericErrorBody, 500, sessionCookie)
    ELSE IF ~Ok(outcome.status)
    THEN OrCatch(json(UpstreamErrorBody(e.impl, outcome), outcome.status,
                      sessionCookie), sessionCookie)
    ELSE OrCatch(json(SessionBody(e.impl, outcome), 200, sessionCookie),
                 sessionCookie)

\* GET
GetResponse == json(InfoBody, 200, NoText)

-----------------------------------------------------------------------------
(* The browser: it sends its cookies with a same-origin fetch and stores   *)
(* the name=value pair of a Set-Cookie it receives                         *)

BrowserCookieHeader(stored) ==
    <<"theme", "=", "dark">>
      \o (IF stored = NoText THEN <<>>
          ELSE <<";", " ">> \o SESSION_COOKIE_NAME \o <<"=">> \o stored)

BrowserStore(stored, setCookie) ==
    IF setCookie = NoText THEN stored
    ELSE LET pair == Split(setCookie, ";")[1]
             kv   == Split(pair, "=")
         IN  IF Len(kv) > 1 /\ Trim(kv[1]) = SESSION_COOKIE_NAME
             THEN Trim(Join(Tail(kv), "="))
             ELSE stored

-----------------------------------------------------------------------------
(* Inputs *)

Impls == {"route", "part000"}
ApiKeys == {Undefined, Str(""), Str("sk-test")}
ConfigWorkflowIds == {Str(""), Str("wf_cfg")}

\* what crypto.randomUUID() returns on its 1st, 2nd, ... call: distinct values
UUIDs == <<"u1", "u2", "u3", "u4", "u5">>
UUID(k) == <<UUIDs[k]>>

JsonBody(wf, id, alias, upload) ==
    [text |-> "json", workflow |-> wf, workflow_id |-> id, workflowId |-> alias,
     fileUpload |-> upload]

EmptyBody == [JsonBody("undefined", Undefined, Undefined, Undefined)
                 EXCEPT !.text = "empty"]
InvalidBody == [JsonBody("undefined", Undefined, Undefined, Undefined)
                 EXCEPT !.text = "invalid"]

True == [t |-> "boolean", s |-> "true"]

\* the body getClientSecret sends: { workflow: { id: WORKFLOW_ID },
\* chatkit_configuration: { file_upload: { enabled: true } } }
PageBody(configId) == JsonBody("object", configId, Undefined, True)

Bodies ==
    { EmptyBody, InvalidBody,
      JsonBody("object", Str("wf_body"), Str("wf_alias"), True),
      JsonBody("object", Null, Str("wf_alias"), Undefined),
      JsonBody("object", Str(""), Str("wf_alias"), Undefined),
      JsonBody("undefined", Undefined, Str(""), Undefined) }

\* Cookie headers of clients other than the browser
RawHeaders ==
    { NoText,
      SESSION_COOKIE_NAME \o <<"=">>,
      <<"a", "=", "b", ";", " ">> \o SESSION_COOKIE_NAME \o <<"=", "x", "=", "y", " ">>,
      SESSION_COOKIE_NAME \o <<"=", " ", ";", " ">> \o SESSION_COOKIE_NAME \o <<"=", "z">> }

Payload(cs, exp, err, det, msg, id) ==
    [isRecord |-> TRUE, client_secret |-> cs, expires_after |-> exp,
     error |-> err, details |-> det, message |-> msg, id |-> id]

ErrStr(x) == [t |-> "string", s |-> x, message |-> Undefined]
ErrObj(m) == [t |-> "object", s |-> "", message |-> m]
DetStr(x) == [t |-> "string", s |-> x, error |-> NoV1]
DetObj(e) == [t |-> "object", s |-> "", error |-> e]

UpstreamResponse(status, statusText, parse, payload) ==
    [kind |-> "response", status |-> status, statusText |-> statusText,
     parse |-> parse, payload |-> payload]

FetchThrows == [NoOutcome EXCEPT !.kind = "throw"]

Outcomes ==
    { FetchThrows,
      UpstreamResponse(200, "OK", "ok",
          Payload(Str("cs_1"), Num("600"), NoV1, NoV2, Undefined, Str("sess_1"))),
      UpstreamResponse(200, "OK", "ok",
          Payload(Num("42"), Obj("{anchor,seconds}"), NoV1, NoV2, Undefined, Undefined)),
      UpstreamResponse(200, "OK", "fail", EmptyObject),
      UpstreamResponse(200, "OK", "ok", JsonNull),
      UpstreamResponse(201, "Created", "ok",
          Payload(Str("cs_3"), Str("soon"), NoV1, NoV2, Undefined, Undefined)),
      UpstreamResponse(204, "No Content", "fail", EmptyObject),
      UpstreamResponse(304, "Not Modified", "fail", EmptyObject),
      UpstreamResponse(401, "Unauthorized", "ok",
          Payload(Undefined, Undefined, ErrObj(Str("bad key")), NoV2, Undefined, Undefined)),
      UpstreamResponse(429, "Too Many Requests", "ok",
          Payload(Undefined, Undefined, ErrStr("rate"), NoV2, Str("slow down"), Undefined)),
      UpstreamResponse(500, "Internal Server Error", "ok",
          Payload(Str("cs_x"), Undefined, NoV1, DetStr("boom"), Undefined, Undefined)),
      UpstreamResponse(502, "Bad Gateway", "fail", EmptyObject) }

-----------------------------------------------------------------------------
(* The route, its clients and its upstream as a state machine *)

NoExchange ==
    [method |-> "none", client |-> "none", cookie |-> NoText, body |-> EmptyBody,
     called |-> 0, user |-> NoText, workflow |-> Undefined,
     fileUpload |-> Undefined, outcome |-> NoOutcome, generated |-> FALSE,
     resp |-> Threw]

InitRoute ==
    /\ env \in [impl : Impls, OPENAI_API_KEY : ApiKeys,
                WORKFLOW_ID : ConfigWorkflowIds, production : BOOLEAN]
    /\ jar = NoText
    /\ pending = {}
    /\ awaiting = {}
    /\ replies = {}
    /\ last = NoExchange
    /\ hist = [posts |-> 0, uuids |-> 0, gen |-> 0, firstId |-> NoText,
               sent |-> 0, users |-> {}, overlapped |-> FALSE]

\* browser POSTs whose response the browser has not processed yet
BrowserOutstanding ==
    Cardinality({r \in pending : r.client = "browser"})
      + Cardinality({a \in awaiting : a.req.client = "browser"})
      + Cardinality(replies)

Send(client, cookie, body) ==
    /\ hist.posts < MaxPosts
    /\ pending' = pending \cup
          {[id |-> hist.posts + 1, client |-> client, cookie |-> cookie,
            body |-> body]}
    /\ hist' = [hist EXCEPT !.posts = @ + 1,
                  !.overlapped = @ \/ (client = "browser" /\ BrowserOutstanding > 0)]
    /\ last' = NoExchange
    /\ UNCHANGED <<env, jar, awaiting, replies>>

\* the page's getClientSecret POSTs with the browser's cookies
BrowserPost ==
    /\ Send("browser", BrowserCookieHeader(jar), PageBody(env.WORKFLOW_ID))
    /\ UNCHANGED <<panelVars, ext>>

\* another HTTP client POSTs with a Cookie header of its own; the route
\* keeps no state between requests, so these are taken one at a time
RawPost ==
    /\ pending = {} /\ awaiting = {}
    /\ \E cookie \in RawHeaders, body \in Bodies : Send("raw", cookie, body)
    /\ UNCHANGED <<panelVars, ext>>

Deliver(req, resp) ==
    replies' = IF req.client = "browser"
               THEN replies \cup {[id |-> req.id, setCookie |-> resp.setCookie]}
               ELSE replies

\* the route runs POST up to its first return or to `await fetch(...)`
PostBegin ==
    /\ hist.uuids < Len(UUIDs)
    /\ \E req \in pending :
         LET st == PostStart(env, req, UUID(hist.uuids + 1))
             browserGen == st.generated /\ req.client = "browser"
         IN  /\ pending' = pending \ {req}
             /\ hist' = [hist EXCEPT
                   !.uuids = IF st.generated THEN @ + 1 ELSE @,
                   !.gen = IF browserGen THEN @ + 1 ELSE @,
                   !.firstId = IF browserGen /\ hist.gen = 0 THEN st.userId ELSE @,
                   !.sent = IF st.fetches > 0 /\ req.client = "browser"
                            THEN @ + st.fetches ELSE @,
                   !.users = IF st.fetches > 0 /\ req.client = "browser"
                             THEN @ \cup {st.userId} ELSE @]
             /\ IF st.done
                THEN /\ last' = [method |-> "POST", client |-> req.client,
                                 cookie |-> req.cookie, body |-> req.body,
                                 called |-> st.fetches, user |-> NoText,
                                 workflow |-> st.workflow,
                                 fileUpload |-> st.fileUpload,
                                 outcome |-> NoOutcome,
                                 generated |-> st.generated, resp |-> st.resp]
                     /\ Deliver(req, st.resp)
                     /\ UNCHANGED awaiting
                ELSE /\ awaiting' = awaiting \cup
                          {[req |-> req, fetches |-> st.fetches,
                            userId |-> st.userId,
                            sessionCookie |-> st.sessionCookie,
                            workflow |-> st.workflow,
                            fileUpload |-> st.fileUpload,
                            generated |-> st.generated]}
                     /\ last' = NoExchange
                     /\ UNCHANGED replies
    /\ UNCHANGED <<env, jar>>
    /\ UNCHANGED <<panelVars, ext>>

\* the upstream call settles and POST runs to its return
PostEnd ==
    /\ \E a \in awaiting, outcome \in Outcomes :
         LET resp == PostFinish(env, a.sessionCookie, outcome)
         IN  /\ awaiting' = awaiting \ {a}
             /\ last' = [method |-> "POST", client |-> a.req.client,
                         cookie |-> a.req.cookie, body |-> a.req.body,
                         called |-> a.fetches, user |-> a.userId,
                         workflow |-> a.workflow, fileUpload |-> a.fileUpload,
                         outcome |-> outcome, generated |-> a.generated,
                         resp |-> resp]
             /\ Deliver(a.req, resp)
    /\ UNCHANGED <<env, jar, pending, hist>>
    /\ UNCHANGED <<panelVars, ext>>

\* GET: no request leaves for the upstream
Get ==
    /\ last' = [NoExchange EXCEPT !.method = "GET", !.client = "raw",
                                   !.resp = GetResponse]
    /\ UNCHANGED <<env, jar, pending, awaiting, replies, hist>>
    /\ UNCHANGED <<panelVars, ext>>

\* the browser processes a response: it stores the cookie it carries
BrowserReceive ==
    /\ \E rep \in replies :
         /\ replies' = replies \ {rep}
         /\ jar' = BrowserStore(jar, rep.setCookie)
    /\ last' = NoExchange
    /\ UNCHANGED <<env, pending, awaiting, hist>>
    /\ UNCHANGED <<panelVars, ext>>

NextRoute ==
    \/ BrowserPost
    \/ RawPost
    \/ PostBegin
    \/ PostEnd
    \/ Get
    \/ BrowserReceive

-----------------------------------------------------------------------------
(* ChatKitPanel: client tools *)

\* getStringParam(params, key): string | null
getStringParam(params, key) ==
    IF params[key].t = "string" THEN params[key] ELSE [params[key] EXCEPT !.t = "null"]

RECURSIVE CollapseWs(_, _)
\* text.replace(/\s+/g, " ")
CollapseWs(s, i) ==
    IF i > Len(s) THEN <<>>
    ELSE IF s[i] \in Whitespace
         THEN IF i > 1 /\ s[i - 1] \in Whitespace
              THEN CollapseWs(s, i + 1)
              ELSE <<" ">> \o CollapseWs(s, i + 1)
         ELSE <<s[i]>> \o CollapseWs(s, i + 1)

\* text.replace(/\s+/g, " ").trim()
NormalizeFactText(s) == Trim(CollapseWs(s, 1))

createInitialErrors ==
    [script |-> Null, session |-> Null, integration |-> Null, retryable |-> FALSE]

\* setErrorState(updates) for the fields a caller passes
setErrorState(current, updates) ==
    [k \in DOMAIN current |-> IF k \in DOMAIN updates THEN updates[k] ELSE current[k]]

\* isColorScheme accepting any string
isColorScheme_anyString(requested) == requested.t = "string"

\* requested === "light" || requested === "dark"
isColorScheme(requested) ==
    requested.t = "string" /\ requested.s \in {"light", "dark"}

NoWidgetAction == [called |-> FALSE, factId |-> "", factText |-> <<>>]

\* onClientTool(invocation): the result it returns, the prop callbacks it
\* calls and the processedFacts it leaves
onClientTool(processedFacts, invocation) ==
    IF invocation.name = "switch_theme"
    THEN LET requested == getStringParam(invocation.params, "theme")
         IN  IF isColorScheme(requested)
             THEN [success |-> TRUE, theme |-> requested,
                   widget |-> NoWidgetAction, processedFacts |-> processedFacts]
             ELSE [success |-> FALSE, theme |-> Undefined,
                   widget |-> NoWidgetAction, processedFacts |-> processedFacts]
    ELSE IF invocation.name = "record_fact"
    THEN LET idv  == getStringParam(invocation.params, "fact_id")
             id   == IF Nullish(idv) THEN "" ELSE idv.s
             txtv == getStringParam(invocation.params, "fact_text")
             text == IF Nullish(txtv) THEN <<>> ELSE txtv.s
         IN  IF id = "" \/ id \in processedFacts
             THEN [success |-> TRUE, theme |-> Undefined,
                   widget |-> NoWidgetAction, processedFacts |-> processedFacts]
             ELSE [success |-> TRUE, theme |-> Undefined,
                   widget |-> [called |-> TRUE, factId |-> id,
                               factText |-> NormalizeFactText(text)],
                   processedFacts |-> processedFacts \cup {id}]
    ELSE [success |-> FALSE, theme |-> Undefined, widget |-> NoWidgetAction,
          processedFacts |-> processedFacts]

\* onThreadChange leaving the set as it is
onThreadChange_keep(processedFacts) == processedFacts

\* onThreadChange: processedFacts.current.clear()
onThreadChange(processedFacts) == {}

\* handleResetChat; hasComponent is what hasChatKitWebComponent() returns
handleResetChat(p, hasComponent) ==
    [p EXCEPT !.processedFacts = {},
              !.scriptStatus = IF hasComponent THEN "ready" ELSE "pending",
              !.isInitializingSession = TRUE,
              !.errors = createInitialErrors,
              !.widgetInstanceKey = @ + 1]

ToolNames == {"switch_theme", "record_fact", "open_link"}
Themes == {Undefined, Str("light"), Str("dark"), Str("Dark"), Str(""), Num("1")}
FactIds == {Undefined, Str(""), Str("f1"), Str("f2"), Num("7")}
FactTexts ==
    { [t |-> "undefined", s |-> <<>>],
      [t |-> "string", s |-> <<" ", "born", " ", "\n", "\t", "1990", " ">>] }

NoFactText == [t |-> "undefined", s |-> <<>>]

\* each tool with the parameters it reads varied, and any tool with the
\* parameters of the others
Invocations ==
    [name : {"switch_theme"},
     params : [theme : Themes, fact_id : {Undefined}, fact_text : {NoFactText}]]
    \cup
    [name : {"record_fact"},
     params : [theme : {Undefined}, fact_id : FactIds, fact_text : FactTexts]]
    \cup
    [name : ToolNames,
     params : [theme : {Str("dark")}, fact_id : {Str("f1")},
               fact_text : {[t |-> "string", s |-> <<"x">>]}]]

-----------------------------------------------------------------------------
(* ChatKitPanel: the session fetch, the script handlers and the render *)

\* String.prototype.startsWith
startsWith(s, prefix) ==
    Len(s) >= Len(prefix) /\ SubSeq(s, 1, Len(prefix)) = prefix

\* Boolean(WORKFLOW_ID && !WORKFLOW_ID.startsWith("wf_replace"))
isWorkflowConfigured(id) == Truthy(id) /\ ~startsWith(id.s, "wf_replace")

NotConfiguredDetail == "Set NEXT_PUBLIC_CHATKIT_WORKFLOW_ID in your .env.local file."
ScriptFailedDetail ==
    "ChatKit web component failed to load. Verify the script URL is reachable."
MissingSecretDetail == "Missing client secret in response"

\* extractErrorDetail reading the top-level message before details
extractErrorDetail_messageFirst(payload, fallback) ==
    IF ~payload.isRecord THEN fallback
    ELSE IF IsString(payload.error) THEN payload.error.s
    ELSE IF payload.error.t = "object" /\ IsString(payload.error.message)
         THEN payload.error.message.s
    ELSE IF IsString(payload.message) THEN payload.message.s
    ELSE IF IsString(payload.details) THEN payload.details.s
    ELSE IF payload.details.t = "object" /\ IsString(payload.details.error)
         THEN payload.details.error.s
    ELSE IF payload.details.t = "object" /\ payload.details.error.t = "object"
            /\ IsString(payload.details.error.message)
         THEN payload.details.error.message.s
    ELSE fallback

\* extractErrorDetail(payload, fallback): string
extractErrorDetail(payload, fallback) ==
    IF ~payload.isRecord THEN fallback
    ELSE IF IsString(payload.error) THEN payload.error.s
    ELSE IF payload.error.t = "object" /\ IsString(payload.error.message)
         THEN payload.error.message.s
    ELSE IF IsString(payload.details) THEN payload.details.s
    ELSE IF payload.details.t = "object" /\ IsString(payload.details.error)
         THEN payload.details.error.s
    ELSE IF payload.details.t = "object" /\ payload.details.error.t = "object"
            /\ IsString(payload.details.error.message)
         THEN payload.details.error.message.s
    ELSE IF IsString(payload.message) THEN payload.message.s
    ELSE fallback

\* handleLoaded
handleLoaded(p) ==
    IF ~p.isMounted THEN p
    ELSE [p EXCEPT !.scriptStatus = "ready",
                   !.errors = setErrorState(@, [script |-> Null])]

\* handleError
handleError(p) ==
    IF ~p.isMounted THEN p
    ELSE [p EXCEPT !.scriptStatus = "error",
                   !.errors = setErrorState(@, [script |-> Str(ScriptFailedDetail),
                                                retryable |-> FALSE]),
                   !.isInitializingSession = FALSE]

\* the effect on isWorkflowConfigured, run after the first render
workflowEffect(p, workflowId) ==
    IF ~isWorkflowConfigured(workflowId) /\ p.isMounted
    THEN [p EXCEPT !.errors = setErrorState(@, [session |-> Str(NotConfiguredDetail),
                                                retryable |-> FALSE]),
                   !.isInitializingSession = FALSE]
    ELSE p

\* the script effect as it runs after the first render: handleLoaded() when
\* the web component is defined already, otherwise the 5 s timer is armed
scriptEffect(p, hasComponent) == IF hasComponent THEN handleLoaded(p) ELSE p

\* what a getClientSecret call hands back to its caller
NoResult == [state |-> "pending", value |-> ""]
Resolved(secret) == [state |-> "resolved", value |-> secret]
Rejected(detail) == [state |-> "rejected", value |-> detail]

\* getClientSecret up to `await fetch(...)`: settled is TRUE when it threw
\* before fetching
getClientSecretStart(p, workflowId, currentSecret) ==
    IF ~isWorkflowConfigured(workflowId)
    THEN [panel |->
            IF p.isMounted
            THEN [p EXCEPT !.errors = setErrorState(@,
                                 [session |-> Str(NotConfiguredDetail),
                                  retryable |-> FALSE]),
                           !.isInitializingSession = FALSE]
            ELSE p,
          settled |-> TRUE, result |-> Rejected(NotConfiguredDetail)]
    ELSE [panel |->
            IF p.isMounted
            THEN [p EXCEPT !.isInitializingSession =
                                 IF ~Truthy(currentSecret) THEN TRUE ELSE @,
                           !.errors = setErrorState(@,
                                 [session |-> Null, integration |-> Null,
                                  retryable |-> FALSE])]
            ELSE p,
          settled |-> FALSE, result |-> NoResult]

NoFetch ==
    [kind |-> "none", message |-> "", status |-> 0, statusText |-> "",
     raw |-> "empty", data |-> EmptyObject]

\* let data = {}; if (raw) { try { data = JSON.parse(raw) } catch {} }
parsedData(fetched) == IF fetched.raw = "json" THEN fetched.data ELSE EmptyObject

\* the try block of getClientSecret from the settling of `await fetch(...)`:
\* the secret it returns or the Error it throws
sessionAttempt(fetched) ==
    LET data == parsedData(fetched)
    IN  IF fetched.kind = "throw" THEN Rejected(fetched.message)
        ELSE IF ~Ok(fetched.status)
        THEN Rejected(extractErrorDetail(data, fetched.statusText))
        ELSE IF ~(data.isRecord /\ IsString(data.client_secret)
                    /\ data.client_secret.s # "")
        THEN Rejected(MissingSecretDetail)
        ELSE Resolved(data.client_secret.s)

\* getClientSecretFinish writing the error whether or not the panel is mounted
getClientSecretFinish_noGuard(p, currentSecret, fetched) ==
    LET r == sessionAttempt(fetched)
    IN  [panel |-> [p EXCEPT !.errors =
                        IF r.state = "resolved"
                        THEN setErrorState(@, [session |-> Null, integration |-> Null])
                        ELSE setErrorState(@, [session |-> Str(r.value),
                                               retryable |-> FALSE]),
                      !.isInitializingSession =
                        IF ~Truthy(currentSecret) THEN FALSE ELSE @],
         settled |-> TRUE, result |-> r]

\* getClientSecretFinish with a finally block that leaves isInitializingSession
getClientSecretFinish_noFinally(p, currentSecret, fetched) ==
    LET r == sessionAttempt(fetched)
    IN  [panel |-> IF ~p.isMounted THEN p
                   ELSE [p EXCEPT !.errors =
                        IF r.state = "resolved"
                        THEN setErrorState(@, [session |-> Null, integration |-> Null])
                        ELSE setErrorState(@, [session |-> Str(r.value),
                                               retryable |-> FALSE])],
         settled |-> TRUE, result |-> r]

\* getClientSecret from the settling of `await fetch(...)` to its return or
\* throw: the success branch, the catch block and the finally block
getClientSecretFinish(p, currentSecret, fetched) ==
    LET r == sessionAttempt(fetched)
    IN  [panel |-> IF ~p.isMounted THEN p
                   ELSE [p EXCEPT !.errors =
                        IF r.state = "resolved"
                        THEN setErrorState(@, [session |-> Null, integration |-> Null])
                        ELSE setErrorState(@, [session |-> Str(r.value),
                                               retryable |-> FALSE]),
                      !.isInitializingSession =
                        IF ~Truthy(currentSecret) THEN FALSE ELSE @],
         settled |-> TRUE, result |-> r]

\* render: errors.session ?? errors.integration
activeError(errors) == Coalesce(errors.session, errors.integration)

\* render: errors.script ?? activeError
blockingError(errors) == Coalesce(errors.script, activeError(errors))

\* render: the ChatKit element is hidden (pointer-events-none opacity-0)
widgetHidden(p) == Truthy(blockingError(p.errors)) \/ p.isInitializingSession

\* render: fallbackMessage of the ErrorOverlay
fallbackMessage(p) ==
    IF Truthy(blockingError(p.errors)) \/ ~p.isInitializingSession
    THEN Null
    ELSE Str("Loading assistant session...")

\* render: onRetry of the ErrorOverlay, handleResetChat or null
onRetry(p) ==
    IF Truthy(blockingError(p.errors)) /\ p.errors.retryable
    THEN "handleResetChat" ELSE "null"

\* the JSON body of a route response as the page's JSON.parse reads it
ClientView(body) ==
    [isRecord |-> TRUE,
     client_secret |-> IF "client_secret" \in body.fields
                       THEN body.client_secret ELSE Undefined,
     expires_after |-> IF "expires_after" \in body.fields
                       THEN body.expires_after ELSE Undefined,
     error |-> IF "error" \in body.fields
               THEN [t |-> "string", s |-> body.error, message |-> Undefined]
               ELSE NoV1,
     details |-> IF "details" \in body.fields
                 THEN IF body.details.isRecord
                      THEN [t |-> "object", s |-> "", error |-> body.details.error]
                      ELSE [NoV2 EXCEPT !.t = "null"]
                 ELSE NoV2,
     message |-> Undefined, id |-> Undefined]

\* the route's answer to the page's POST, for an upstream outcome
RouteAnswer(e, outcome) ==
    LET st == PostStart(e, [cookie |-> NoText, body |-> PageBody(e.WORKFLOW_ID)],
                        UUID(1))
    IN  IF st.done THEN st.resp ELSE PostFinish(e, st.sessionCookie, outcome)

\* fetch(CREATE_SESSION_ENDPOINT) answered by the route; the Response the
\* route builds carries no statusText
FromRoute(resp) ==
    [kind |-> "response", message |-> "", status |-> resp.status,
     statusText |-> "", raw |-> "json", data |-> ClientView(resp.body)]

\* fetch rejects: the network is down
FetchFails == [NoFetch EXCEPT !.kind = "throw", !.message = "Failed to fetch"]

\* answers that do not come from the route: the platform's 404 page for a
\* wrong endpoint, a gateway's empty 502 over HTTP/2 (no reason phrase), and
\* a 200 whose body is the JSON literal null
ForeignResponses ==
    { [NoFetch EXCEPT !.kind = "response", !.status = 404,
                      !.statusText = "Not Found", !.raw = "invalid"],
      [NoFetch EXCEPT !.kind = "response", !.status = 502, !.raw = "empty"],
      [NoFetch EXCEPT !.kind = "response", !.status = 200, !.statusText = "OK",
                      !.raw = "json", !.data = JsonNull] }

\* the upstream outcomes behind the route's answers to the page: a session,
\* a client_secret that is no string, an error the upstream words, an empty
\* error string, and a body that does not parse
SessionOutcomes ==
    { UpstreamResponse(200, "OK", "ok",
          Payload(Str("cs_1"), Num("600"), NoV1, NoV2, Undefined, Str("sess_1"))),
      UpstreamResponse(200, "OK", "ok",
          Payload(Num("42"), Obj("{anchor,seconds}"), NoV1, NoV2, Undefined, Undefined)),
      UpstreamResponse(401, "Unauthorized", "ok",
          Payload(Undefined, Undefined, ErrObj(Str("bad key")), NoV2, Undefined, Undefined)),
      UpstreamResponse(400, "Bad Request", "ok",
          Payload(Undefined, Undefined, ErrStr(""), NoV2, Undefined, Undefined)),
      UpstreamResponse(502, "Bad Gateway", "fail", EmptyObject) }

FetchResults(e) ==
    {FetchFails} \cup {FromRoute(RouteAnswer(e, o)) : o \in SessionOutcomes}
      \cup ForeignResponses

\* the currentSecret ChatKit passes: none on the initial call, the secret
\* to refresh otherwise
CurrentSecrets == {Null, Str("cs_1")}

\* NEXT_PUBLIC_CHATKIT_WORKFLOW_ID as the page can be built with it
PanelWorkflowIds == ConfigWorkflowIds \cup {Str("wf_replace_with_your_id")}

NoEvent ==
    [kind |-> "none", mounted |-> TRUE, currentSecret |-> Null,
     fetched |-> NoFetch, result |-> NoResult]

\* inflight counts the suspended calls by the currentSecret they were given
NoSession ==
    [started |-> 0, inflight |-> [cs \in CurrentSecrets |-> 0],
     effects |-> FALSE, ev |-> NoEvent]

InitPanel ==
    /\ panel \in [processedFacts : {{}}, errors : {createInitialErrors},
                  isInitializingSession : {TRUE}, isMounted : {TRUE},
                  scriptStatus : {"pending", "ready"}, widgetInstanceKey : {0}]
    /\ toolLog = [n |-> 0, name |-> "", params |-> [theme |-> Undefined,
                     fact_id |-> Undefined, fact_text |-> [t |-> "undefined", s |-> <<>>]],
                  success |-> FALSE, theme |-> Undefined,
                  widget |-> NoWidgetAction, before |-> panel, after |-> panel,
                  epochCalls |-> <<>>, earlier |-> {}]
    /\ sess = NoSession

\* a thread change or a reset ends the epoch the fact ids were recorded in
EndEpoch(log) ==
    [log EXCEPT !.n = 0, !.epochCalls = <<>>,
                !.earlier = @ \cup {log.epochCalls[i] : i \in DOMAIN log.epochCalls}]

\* the widget invokes a client tool (the widget and the overlay call the
\* panel while it is mounted)
ClientTool ==
    /\ panel.isMounted
    /\ \E inv \in Invocations :
         LET r == onClientTool(panel.processedFacts, inv)
         IN  /\ panel' = [panel EXCEPT !.processedFacts = r.processedFacts]
             /\ toolLog' = [n |-> 1, name |-> inv.name, params |-> inv.params,
                            success |-> r.success, theme |-> r.theme,
                            widget |-> r.widget,
                            before |-> panel, after |-> panel',
                            epochCalls |->
                               IF r.widget.called
                               THEN Append(toolLog.epochCalls, r.widget.factId)
                               ELSE toolLog.epochCalls,
                            earlier |-> toolLog.earlier]
    /\ sess' = [sess EXCEPT !.ev = NoEvent]
    /\ UNCHANGED <<routeVars, ext>>

\* the widget reports a thread change: a new epoch of recorded facts starts
ThreadChange ==
    /\ panel.isMounted
    /\ panel' = [panel EXCEPT !.processedFacts = onThreadChange(@)]
    /\ toolLog' = EndEpoch(toolLog)
    /\ sess' = [sess EXCEPT !.ev = NoEvent]
    /\ UNCHANGED <<routeVars, ext>>

\* handleResetChat runs
ResetChat ==
    /\ panel.isMounted
    /\ panel.widgetInstanceKey < MaxResets
    /\ \E hasComponent \in BOOLEAN : panel' = handleResetChat(panel, hasComponent)
    /\ toolLog' = EndEpoch(toolLog)
    /\ sess' = [sess EXCEPT !.ev = NoEvent]
    /\ UNCHANGED <<routeVars, ext>>

\* onResponseStart
ResponseStart ==
    /\ panel.isMounted
    /\ panel' = [panel EXCEPT !.errors =
          setErrorState(@, [integration |-> Null, retryable |-> FALSE])]
    /\ sess' = [sess EXCEPT !.ev = NoEvent]
    /\ UNCHANGED toolLog
    /\ UNCHANGED <<routeVars, ext>>


\* an event of the session, script or mount kind, with the state it found
Event(kind, currentSecret, fetched, result) ==
    [kind |-> kind, mounted |-> panel.isMounted, currentSecret |-> currentSecret,
     fetched |-> fetched, result |-> result]

\* the effects of the first render run: the script effect and the effect on
\* isWorkflowConfigured
MountEffects ==
    /\ ~sess.effects
    /\ panel.isMounted
    /\ \E hasComponent \in BOOLEAN :
         /\ panel.scriptStatus = "ready" => hasComponent
         /\ panel' = workflowEffect(scriptEffect(panel, hasComponent),
                                    env.WORKFLOW_ID)
    /\ sess' = [sess EXCEPT !.effects = TRUE,
                            !.ev = Event("mount", Null, NoFetch, NoResult)]
    /\ UNCHANGED toolLog
    /\ UNCHANGED <<routeVars, ext>>

\* "chatkit-script-loaded": handleLoaded is called
ScriptLoaded ==
    /\ panel' = handleLoaded(panel)
    /\ sess' = [sess EXCEPT !.ev = Event("loaded", Null, NoFetch, NoResult)]
    /\ UNCHANGED toolLog
    /\ UNCHANGED <<routeVars, ext>>

\* "chatkit-script-error" or the 5 s timer: handleError is called
ScriptError ==
    /\ panel' = handleError(panel)
    /\ sess' = [sess EXCEPT !.ev = Event("error", Null, NoFetch, NoResult)]
    /\ UNCHANGED toolLog
    /\ UNCHANGED <<routeVars, ext>>

\* the panel unmounts: isMountedRef.current = false
Unmount ==
    /\ panel.isMounted
    /\ panel' = [panel EXCEPT !.isMounted = FALSE]
    /\ sess' = [sess EXCEPT !.ev = Event("unmount", Null, NoFetch, NoResult)]
    /\ UNCHANGED toolLog
    /\ UNCHANGED <<routeVars, ext>>

\* ChatKit calls getClientSecret(currentSecret): it runs to its throw or to
\* `await fetch(...)`
SecretStart ==
    /\ sess.started < MaxCalls
    /\ \E currentSecret \in CurrentSecrets :
         LET st == getClientSecretStart(panel, env.WORKFLOW_ID, currentSecret)
         IN  /\ panel' = st.panel
             /\ sess' = [sess EXCEPT
                   !.started = @ + 1,
                   !.inflight = IF st.settled THEN @
                                ELSE [@ EXCEPT ![currentSecret] = @ + 1],
                   !.ev = Event(IF st.settled THEN "settle" ELSE "start",
                                currentSecret, NoFetch, st.result)]
    /\ UNCHANGED toolLog
    /\ UNCHANGED <<routeVars, ext>>

\* the fetch of a suspended call settles and the call runs to its end
SecretSettle ==
    /\ \E currentSecret \in CurrentSecrets, fetched \in FetchResults(env) :
         LET fin == getClientSecretFinish(panel, currentSecret, fetched)
         IN  /\ sess.inflight[currentSecret] > 0
             /\ panel' = fin.panel
             /\ sess' = [sess EXCEPT
                   !.inflight = [@ EXCEPT ![currentSecret] = @ - 1],
                   !.ev = Event("settle", currentSecret, fetched, fin.result)]
    /\ UNCHANGED toolLog
    /\ UNCHANGED <<routeVars, ext>>

NextPanel ==
    \/ ClientTool
    \/ ThreadChange
    \/ ResetChat
    \/ ResponseStart

\* the panel's session, script and mount events next to the widget's thread
\* change, reset and response start; onClientTool reads and writes
\* processedFacts alone and is left to NextPanel
NextSession ==
    \/ ThreadChange
    \/ ResetChat
    \/ ResponseStart
    \/ MountEffects
    \/ ScriptLoaded
    \/ ScriptError
    \/ Unmount
    \/ SecretStart
    \/ SecretSettle

-----------------------------------------------------------------------------
(* Error-message extraction: the route's extractUpstreamError and the page's *)
(* extractErrorDetail applied to one error response                         *)

NoExtract ==
    [response |-> NoOutcome, server |-> FALSE, client |-> FALSE,
     route |-> "", part000 |-> "", detail |-> ""]

ErrorFields ==
    { NoV1, ErrStr("e"), ErrStr(""), ErrObj(Str("em")), ErrObj(Num("5")),
      [t |-> "number", s |-> "7", message |-> Undefined] }

DetailsFields ==
    { NoV2, DetStr("d"), DetObj(ErrStr("de")), DetObj(ErrObj(Str("dem"))),
      DetObj(NoV1) }

MessageFields == {Undefined, Str("m"), Num("3")}

ErrorPayloads ==
    { Payload(Undefined, Undefined, err, det, msg, Undefined) :
        err \in ErrorFields, det \in DetailsFields, msg \in MessageFields }
      \cup {JsonNull}

\* non-ok responses: with a reason phrase, without one (HTTP/2), and with a
\* body that does not parse
ErrorResponses ==
    { UpstreamResponse(st[1], st[2], "ok", payload) :
        st \in {<<401, "Unauthorized">>, <<502, "">>}, payload \in ErrorPayloads }
      \cup {UpstreamResponse(500, "Internal Server Error", "fail", EmptyObject)}

InitExtract ==
    ext \in {[NoExtract EXCEPT !.response = r] : r \in ErrorResponses}

\* the route, in both versions, words the error of the response it got
ExtractUpstream ==
    /\ ~ext.server
    /\ ext' = [ext EXCEPT !.server = TRUE,
                  !.route = UpstreamErrorBody("route", ext.response).error,
                  !.part000 = UpstreamErrorBody("part000", ext.response).error]
    /\ UNCHANGED <<routeVars, panelVars>>

\* the page words the error of the same response: data is {} unless the body
\* parses, and the fallback is response.statusText
ExtractDetail ==
    /\ ~ext.client
    /\ ext' = [ext EXCEPT !.client = TRUE,
                  !.detail = extractErrorDetail(upstreamJson(ext.response),
                                                ext.response.statusText)]
    /\ UNCHANGED <<routeVars, panelVars>>

NextExtract ==
    \/ ExtractUpstream
    \/ ExtractDetail

-----------------------------------------------------------------------------
(* Specifications *)

\* the route with its clients and upstream; the panel is left as mounted
InitRouteSpec ==
    /\ InitRoute
    /\ InitPanel
    /\ ext = NoExtract
    /\ panel.scriptStatus = "pending"

SpecRoute == InitRouteSpec /\ [][NextRoute]_vars

\* the panel with its widget; the route is deployed as route.ts with its key
InitPanelSpec ==
    /\ InitRoute
    /\ InitPanel
    /\ ext = NoExtract
    /\ env = [impl |-> "route", OPENAI_API_KEY |-> Str("sk-test"),
              WORKFLOW_ID |-> Str("wf_cfg"), production |-> TRUE]

SpecPanel == InitPanelSpec /\ [][NextPanel]_vars

\* the panel's session fetch against the route in both versions, deployed
\* with its key, with the workflow id configured, empty or left as the
\* placeholder
InitSessionSpec ==
    /\ InitPanel
    /\ ext = NoExtract
    /\ env \in [impl : Impls, OPENAI_API_KEY : {Str("sk-test")},
                WORKFLOW_ID : PanelWorkflowIds, production : {TRUE}]
    /\ jar = NoText
    /\ pending = {}
    /\ awaiting = {}
    /\ replies = {}
    /\ last = NoExchange
    /\ hist = [posts |-> 0, uuids |-> 0, gen |-> 0, firstId |-> NoText,
               sent |-> 0, users |-> {}, overlapped |-> FALSE]

SpecSession == InitSessionSpec /\ [][NextSession]_vars

\* the two extractors on the error responses
InitExtractSpec ==
    /\ InitRoute
    /\ InitPanel
    /\ env = [impl |-> "route", OPENAI_API_KEY |-> Str("sk-test"),
              WORKFLOW_ID |-> Str("wf_cfg"), production |-> TRUE]
    /\ panel.scriptStatus = "pending"
    /\ InitExtract

SpecExtract == InitExtractSpec /\ [][NextExtract]_vars

-----------------------------------------------------------------------------
(* Claims about the route *)

\* C1: across any set of POSTs from one browser, overlapping ones included,
\* at most one sticky visitor id is ever generated and issued.
C1_AtMostOneIdPerBrowser == hist.gen <= 1

\* C2: for POSTs a cookie-keeping browser makes one after another, every
\* upstream session request carries the same `user`: the id generated on the
\* first request, read back unchanged from the cookie afterwards.
C2_SequentialPostsKeepUser ==
    ~hist.overlapped =>
        /\ hist.gen <= 1
        /\ \A u \in hist.users : u = hist.firstId
        /\ jar \in {NoText, hist.firstId}
        /\ (hist.sent > 0 => hist.gen = 1)

\* C2 witness: two POSTs in a row reached the upstream, the second one with
\* the cookie the first one set
C2_Witness ==
    /\ ~hist.overlapped
    /\ hist.sent = 2
    /\ hist.gen = 1
    /\ hist.users = {hist.firstId}
    /\ jar = hist.firstId

\* the latest step completed a POST whose upstream call returned a response
GotUpstreamResponse ==
    /\ last.method = "POST"
    /\ last.called = 1
    /\ last.outcome.kind = "response"

\* C3 as stated: for every POST that reached the upstream and got a
\* response, the endpoint's status equals the upstream's status.
C3_StatusPassThrough ==
    GotUpstreamResponse => last.resp.status = last.outcome.status

\* C3 amended: a non-ok upstream status is passed through, except a status
\* that cannot carry a body (304), which is answered 500; every ok upstream
\* status (200..299) is answered 200.
C3_StatusPassThroughNonOk ==
    GotUpstreamResponse =>
        LET up == last.outcome.status
        IN  /\ (up \in 200..299 => last.resp.status = 200)
            /\ (up \notin 200..299 /\ up # 304 => last.resp.status = up)
            /\ (up = 304 =>
                  last.resp.status = 500 /\ last.resp.body = GenericErrorBody)

\* C3 witness: an upstream error status came back as the endpoint's status
C3_Witness ==
    /\ GotUpstreamResponse
    /\ last.outcome.status = 429
    /\ last.resp.status = 429

\* the text of the fallback error for a non-ok upstream response
FailedToCreate(outcome) ==
    "Failed to create session: " \o ToString(outcome.status) \o " "
        \o outcome.statusText

\* C4 as stated: when fetch throws or the upstream body cannot be parsed as
\* JSON, POST returns 500 with the generic error and no upstream detail.
C4_NetworkOrParseFailureIs500 ==
    (/\ last.method = "POST"
     /\ last.called = 1
     /\ (last.outcome.kind = "throw" \/ last.outcome.parse = "fail"))
        => last.resp.status = 500 /\ last.resp.body = GenericErrorBody

\* C4 amended: when fetch throws, POST returns 500 with the generic error
\* and no upstream detail; an upstream body that cannot be parsed is read as
\* {}: an ok response gives 200 with client_secret and expires_after null,
\* a non-ok one gives the upstream's status with the error
\* 'Failed to create session: <status> <statusText>' (304: the generic 500).
C4_FailureHandling ==
    /\ (last.method = "POST" /\ last.called = 1 /\ last.outcome.kind = "throw")
          => last.resp.status = 500 /\ last.resp.body = GenericErrorBody
    /\ (GotUpstreamResponse /\ last.outcome.parse = "fail") =>
          LET up == last.outcome.status
          IN  /\ up \in 200..299 =>
                    /\ last.resp.status = 200
                    /\ last.resp.body.fields = {"client_secret", "expires_after"}
                    /\ last.resp.body.client_secret = Null
                    /\ last.resp.body.expires_after = Null
              /\ (up \notin 200..299 /\ up # 304) =>
                    /\ last.resp.status = up
                    /\ last.resp.body.error = FailedToCreate(last.outcome)
                    /\ last.resp.body.details = EmptyObject
              /\ up = 304 =>
                    last.resp.status = 500 /\ last.resp.body = GenericErrorBody

\* C4 witness: an unparseable body on a non-ok response, answered with the
\* upstream's status and the fallback text
C4_Witness ==
    /\ GotUpstreamResponse
    /\ last.outcome.parse = "fail"
    /\ last.outcome.status = 502
    /\ last.resp.status = 502
    /\ last.resp.body.error = "Failed to create session: 502 Bad Gateway"

\* the upstream's value for a field, null when the upstream did not supply it
Supplied(v) == IF v.t = "undefined" THEN Null ELSE v

UpstreamField(outcome, field) ==
    IF outcome.parse = "fail" \/ ~outcome.payload.isRecord THEN Null
    ELSE Supplied(outcome.payload[field])

C6_AtMostOneUpstreamRequest ==
    LET key      == Truthy(env.OPENAI_API_KEY)
        resolves == Truthy(resolvedWorkflowId(last.body, env.WORKFLOW_ID))
    IN  /\ last.method = "POST" =>
              /\ last.called <= 1
              /\ (key /\ resolves => last.called = 1)
              /\ (~key => /\ last.called = 0
                          /\ last.resp.status = 500
                          /\ last.resp.body = MissingKeyBody)
              /\ (key /\ ~resolves => /\ last.called = 0
                                      /\ last.resp.status = 400
                                      /\ last.resp.body = MissingWorkflowBody)
        /\ \A a \in awaiting :
              /\ a.fetches = 1
              /\ key
              /\ Truthy(resolvedWorkflowId(a.req.body, env.WORKFLOW_ID))
        /\ last.method = "GET" =>
              /\ last.called = 0
              /\ ~last.generated
              /\ last.resp.setCookie = NoText
              /\ last.resp.status = 200

\* C6 witness: a POST with key and workflow id made its one upstream call,
\* another POST is suspended in its own
C6_Witness ==
    /\ last.method = "POST"
    /\ last.called = 1
    /\ last.resp.status = 200
    /\ awaiting # {}

\* a value that supplies a workflow id: a non-empty string
SuppliesId(v) == v.t = "string" /\ v.s # ""

\* what the request and the configuration offer as workflow id, in the
\* claim's order; an empty or unparseable body offers nothing
WorkflowIdSources(body, configId) ==
    << IF body.text = "json" /\ body.workflow = "object"
       THEN body.workflow_id ELSE Undefined,
       IF body.text = "json" THEN body.workflowId ELSE Undefined,
       configId >>

\* C7: the workflow id sent upstream is the first one supplied among
\* body.workflow.id, body.workflowId and WORKFLOW_ID; POST answers 400
\* 'Missing workflow id' exactly when none of the three supplies an id.
C7_FirstSuppliedWorkflowId ==
    (last.method = "POST" /\ Truthy(env.OPENAI_API_KEY)) =>
        LET src      == WorkflowIdSources(last.body, env.WORKFLOW_ID)
            supplied == {i \in 1..3 : SuppliesId(src[i])}
            first    == CHOOSE i \in supplied : \A j \in supplied : i <= j
        IN  /\ (supplied = {}) <=>
                  (last.resp.status = 400 /\ last.resp.body = MissingWorkflowBody)
            /\ supplied # {} => last.called = 1 /\ last.workflow = src[first]

\* the name=value pairs of a Cookie header that are named chatkit_session_id
SessionPairs(header) ==
    IF header = NoText THEN {}
    ELSE LET parts == Split(header, ";")
         IN  {i \in DOMAIN parts :
                LET kv == Split(parts[i], "=")
                IN  Len(kv) > 1 /\ Trim(kv[1]) = SESSION_COOKIE_NAME}

\* the value of the first of them, trimmed
FirstSessionValue(header) ==
    LET parts == Split(header, ";")
        first == CHOOSE i \in SessionPairs(header) :
                    \A j \in SessionPairs(header) : i <= j
    IN  Trim(Join(Tail(Split(parts[first], "=")), "="))

\* the value a Set-Cookie header gives the cookie
SetCookieValue(setCookie) ==
    Trim(Join(Tail(Split(Split(setCookie, ";")[1], "=")), "="))

\* C8 as stated: a POST response carries Set-Cookie for chatkit_session_id
\* exactly when the request carried no such cookie and the API key is
\* configured, whatever the outcome, and its value is the `user` sent upstream.
C8_SetCookieIffNoCookie ==
    last.method = "POST" =>
        /\ (last.resp.setCookie # NoText) <=>
              (SessionPairs(last.cookie) = {} /\ Truthy(env.OPENAI_API_KEY))
        /\ (last.resp.setCookie # NoText /\ last.called = 1) =>
              SetCookieValue(last.resp.setCookie) = last.user

\* C8 amended: a POST response carries Set-Cookie for chatkit_session_id
\* exactly when the API key is configured and the request carried no such
\* cookie or the first such cookie of its Cookie header has an empty value;
\* then it is present on every outcome and its value is the `user` sent
\* upstream. A request whose first such cookie has a non-empty value never
\* gets a Set-Cookie.
C8_SetCookieIffNoUsableCookie ==
    last.method = "POST" =>
        LET usable == /\ SessionPairs(last.cookie) # {}
                      /\ Len(FirstSessionValue(last.cookie)) > 0
        IN  /\ (last.resp.setCookie # NoText) <=>
                  (~usable /\ Truthy(env.OPENAI_API_KEY))
            /\ (last.resp.setCookie # NoText /\ last.called = 1) =>
                  SetCookieValue(last.resp.setCookie) = last.user
            /\ (usable /\ last.called = 1) =>
                  last.user = FirstSessionValue(last.cookie)

\* C8 witness: a request carrying the cookie with an empty value was answered
\* by an upstream error status together with a Set-Cookie for the id sent
C8_Witness ==
    /\ last.method = "POST"
    /\ last.cookie = SESSION_COOKIE_NAME \o <<"=">>
    /\ last.called = 1
    /\ last.resp.status = 401
    /\ last.resp.setCookie # NoText
    /\ SetCookieValue(last.resp.setCookie) = last.user

-----------------------------------------------------------------------------
(* Claims about the panel's client tools *)

\* how often a fact id was passed to onWidgetAction in the current epoch
TimesRecorded(id) ==
    Cardinality({i \in DOMAIN toolLog.epochCalls : toolLog.epochCalls[i] = id})

\* C9: between two thread changes (or resets) onWidgetAction is called at
\* most once per non-empty fact_id and never for an empty or non-string one;
\* every record_fact invocation returns success true; after a thread change
\* or reset the same fact_id is recorded again.
C9_RecordFactOncePerThread ==
    /\ \A i \in DOMAIN toolLog.epochCalls :
          /\ toolLog.epochCalls[i] # ""
          /\ TimesRecorded(toolLog.epochCalls[i]) = 1
    /\ (toolLog.n = 1 /\ toolLog.name = "record_fact") =>
          LET id == toolLog.params.fact_id
          IN  /\ toolLog.success
              /\ IF id.t = "string" /\ id.s # ""
                 THEN /\ TimesRecorded(id.s) = 1
                      /\ toolLog.widget.called => toolLog.widget.factId = id.s
                 ELSE ~toolLog.widget.called
    /\ (toolLog.n = 1 /\ toolLog.name # "record_fact") => ~toolLog.widget.called

\* C9 witness: a fact id recorded in an earlier thread is recorded again
C9_Witness ==
    /\ toolLog.n = 1
    /\ toolLog.name = "record_fact"
    /\ toolLog.widget.called
    /\ toolLog.widget.factId \in toolLog.earlier
    /\ toolLog.widget.factId \in panel.processedFacts

\* C10: switch_theme calls onThemeRequest and returns success true exactly
\* when its theme parameter is the string 'light' or 'dark'; any other theme
\* value, and any tool other than switch_theme and record_fact, returns
\* success false and changes no UI state.
C10_SwitchThemeAndUnknownTools ==
    toolLog.n = 1 =>
        LET theme == toolLog.params.theme
            valid == theme \in {Str("light"), Str("dark")}
        IN  /\ toolLog.name = "switch_theme" =>
                  /\ toolLog.success <=> valid
                  /\ (toolLog.theme # Undefined) <=> valid
                  /\ valid => toolLog.theme = theme
            /\ (\/ toolLog.name = "switch_theme" /\ ~valid
                \/ toolLog.name \notin {"switch_theme", "record_fact"}) =>
                  /\ ~toolLog.success
                  /\ toolLog.theme = Undefined
                  /\ ~toolLog.widget.called
                  /\ toolLog.after = toolLog.before

\* C10 witness: switch_theme with a theme that is a string but no colour
\* scheme fails, with facts recorded before it left in place
C10_Witness ==
    /\ toolLog.n = 1
    /\ toolLog.name = "switch_theme"
    /\ toolLog.params.theme = Str("Dark")
    /\ ~toolLog.success
    /\ toolLog.before.processedFacts # {}
    /\ panel.processedFacts = toolLog.before.processedFacts

-----------------------------------------------------------------------------
(* Claims about the panel's session fetch, script handlers and overlay *)

\* the step is a call of getClientSecret, of handleLoaded or of handleError
\* (or the rest of a call, from the settling of its fetch)
GuardedStep == sess'.ev.kind \in {"start", "settle", "loaded", "error"}

\* what the caller of getClientSecret gets for what the fetch gave
HandsBack(ev) ==
    LET f == ev.fetched
        secret == IF f.raw = "json" /\ f.data.isRecord
                  THEN f.data.client_secret ELSE Undefined
    IN  CASE f.kind = "none" ->
               ev.result = [state |-> "rejected", value |-> NotConfiguredDetail]
          [] f.kind = "throw" ->
               ev.result = [state |-> "rejected", value |-> f.message]
          [] f.kind = "response" /\ f.status \in 200..299
               /\ secret.t = "string" /\ secret.s # "" ->
               ev.result = [state |-> "resolved", value |-> secret.s]
          [] OTHER -> ev.result.state = "rejected"

\* C11: once the panel has unmounted, a call of getClientSecret (its start and
\* the completion of a call in flight, by success or by failure) and the
\* script handlers handleLoaded and handleError change no component state
\* (errors, isInitializingSession, scriptStatus), while a completing call
\* still resolves with the secret or rejects with the error to its caller.
C11_UnmountedChangesNoState ==
    [][ (~panel.isMounted /\ GuardedStep) =>
          /\ panel' = panel
          /\ sess'.ev.kind = "settle" => HandsBack(sess'.ev) ]_vars

\* a call in flight completed with the secret after the unmount, and the
\* panel is left as the unmount found it: still initializing
C11_Witness ==
    /\ sess.ev.kind = "settle"
    /\ ~sess.ev.mounted
    /\ sess.ev.fetched.kind = "response"
    /\ sess.ev.result = [state |-> "resolved", value |-> "cs_1"]
    /\ panel.isInitializingSession
    /\ panel.errors.session = Null

\* the step starts an initial call (no current secret) of getClientSecret
InitialCallStarts ==
    /\ sess'.started = sess.started + 1
    /\ ~Truthy(sess'.ev.currentSecret)

\* the step is handleResetChat
ChatIsReset == panel'.widgetInstanceKey # panel.widgetInstanceKey

\* C12: while the panel is mounted, once an initial getClientSecret call (no
\* current secret) settles, by success or by failure, isInitializingSession
\* is false, and it stays false until a new initial call starts or the chat
\* is reset; and the 'Loading assistant session...' message is never shown
\* together with a blocking error.
C12_LoadingOnlyWhileInitializing ==
    /\ [] ( /\ (sess.ev.kind = "settle" /\ sess.ev.mounted
                  /\ ~Truthy(sess.ev.currentSecret))
               => ~panel.isInitializingSession
            /\ fallbackMessage(panel) # Null
               => ~Truthy(blockingError(panel.errors)) )
    /\ [][ (~panel.isInitializingSession /\ panel'.isInitializingSession)
             => (InitialCallStarts \/ ChatIsReset) ]_vars

\* an initial call failed while the panel was mounted: the overlay shows the
\* error and no loading message
C12_Witness ==
    /\ sess.ev.kind = "settle"
    /\ sess.ev.mounted
    /\ ~Truthy(sess.ev.currentSecret)
    /\ sess.ev.result.state = "rejected"
    /\ sess.ev.fetched.kind = "response"
    /\ ~panel.isInitializingSession
    /\ Truthy(blockingError(panel.errors))
    /\ fallbackMessage(panel) = Null

\* errors.retryable is false and the overlay offers no retry
NeverRetryable ==
    /\ ~panel.errors.retryable
    /\ onRetry(panel) = "null"

\* C15: errors.retryable is false in every reachable state of the panel, so
\* the 'Restart chat' retry action (handleResetChat) is never offered by the
\* error overlay; and a session error, while it is set, is blocking: the
\* overlay has an error to show and the widget is hidden.
C15_NeverRetryableSessionErrorBlocks ==
    /\ NeverRetryable
    /\ panel.errors.session # Null
         => (Truthy(blockingError(panel.errors)) /\ widgetHidden(panel))

-----------------------------------------------------------------------------
(* Claims about the error message and the two versions of the route *)

\* the fields an error message is looked for in, in the order of the claim
MessageCandidates(payload) ==
    IF ~payload.isRecord THEN <<>>
    ELSE << [t |-> payload.error.t, s |-> payload.error.s],
            payload.error.message,
            [t |-> payload.details.t, s |-> payload.details.s],
            [t |-> payload.details.error.t, s |-> payload.details.error.s],
            payload.details.error.message,
            payload.message >>

\* the place of the first string among them, 0 when there is none
FirstStringAt(fields) ==
    LET at == {i \in DOMAIN fields : fields[i].t = "string"}
    IN  IF at = {} THEN 0 ELSE CHOOSE i \in at : \A j \in at : i <= j

\* C13: for a non-ok response the error message is the first string found in
\* the order error, error.message, details, details.error,
\* details.error.message, message; when none of them is a string the server
\* (route.ts) falls back to 'Failed to create session: <status> <statusText>'
\* and the client to the response's statusText; so server and client pick the
\* same message for every payload in which one of these fields is a string.
C13_FirstStringInOrder ==
    LET r == ext.response
        fields == MessageCandidates(upstreamJson(r))
        k == FirstStringAt(fields)
    IN  /\ ext.server =>
             ext.route = IF k > 0 THEN fields[k].s
                         ELSE "Failed to create session: " \o ToString(r.status)
                                \o " " \o r.statusText
        /\ ext.client =>
             ext.detail = IF k > 0 THEN fields[k].s ELSE r.statusText
        /\ (ext.server /\ ext.client /\ k > 0) => ext.route = ext.detail

\* both have read a payload whose only string before the top-level message
\* is details.error.message, behind an error object without a message
C13_Witness ==
    /\ ext.server /\ ext.client
    /\ ext.response.payload.error.t = "object"
    /\ ext.response.payload.message = Str("m")
    /\ FirstStringAt(MessageCandidates(upstreamJson(ext.response))) = 5
    /\ ext.route = "dem"
    /\ ext.detail = "dem"

\* the answer of a version of the route to the request and the upstream
\* outcome of the latest POST
VersionAnswer(impl) ==
    LET e  == [env EXCEPT !.impl = impl]
        st == PostStart(e, [cookie |-> last.cookie, body |-> last.body], UUID(1))
    IN  IF st.done THEN st.resp ELSE PostFinish(e, st.sessionCookie, last.outcome)

\* C14: the two versions of the route (route.ts and part_000) answer every
\* request and every upstream outcome with the same status, the same
\* Set-Cookie decision, and the same client_secret and expires_after on
\* success or the same error message on failure.
C14_VersionsAnswerAlike ==
    last.method = "POST" =>
        LET a == VersionAnswer("route")
            b == VersionAnswer("part000")
        IN  /\ a.status = b.status
            /\ (a.setCookie = NoText) <=> (b.setCookie = NoText)
            /\ IF "error" \in a.body.fields \/ "error" \in b.body.fields
               THEN a.body.error = b.body.error
               ELSE /\ a.body.client_secret = b.body.client_secret
                    /\ a.body.expires_after = b.body.expires_after

=============================================================================
